---- MODULE Spec2Model ----
(***************************************************************************)
(* Model of pw_presubmit/tools.py: the path filter, the resolution of a    *)
(* program against a universe of paths (_apply_filters and                 *)
(* _map_checks_to_paths) and the sequential execution of the resolved      *)
(* program (Presubmit.run, Presubmit._execute_checks, Presubmit._context,  *)
(* _Check.run), entered through run_presubmit from the command line:       *)
(* is_git_repo, list_git_files, file_summary and the exit of the process.  *)
(* Model of cipd_setup/wrapper.py: init with bootstrap, client_bytes and   *)
(* selfupdate, as a next-state relation of its own (NextCipd).             *)
(*                                                                         *)
(* A Python str is a sequence of one-character strings; a tuple or list    *)
(* is a sequence.                                                          *)
(***************************************************************************)
EXTENDS Integers, Sequences, FiniteSets, TLC

VARIABLES
    git_stdout,     \* the names git prints for ls-files or diff --name-only
    files,          \* files of run_presubmit: what list_git_files returned
    cli_exclude,    \* the exclude argument of run_presubmit
    max_lines,      \* the max_lines argument of file_summary
    main_pc,        \* position inside run_presubmit and __main__
    is_git_repo,    \* what is_git_repo returned, once it was called
    listed,         \* list_git_files was called
    returned,       \* the value run_presubmit returns
    exit_code,      \* the exit code of the process, once it has exited
    handlers,       \* the per-check handlers attached to _LOG
    summary,        \* the lines of file_summary that run prints
    full_program,   \* the program handed to Presubmit.run
    paths,          \* Presubmit._paths, the universe
    keep_going,     \* the keep_going argument of Presubmit.run
    pc,             \* position inside Presubmit.run
    program,        \* the executed program: the result of _apply_filters
    i,              \* number of iterations of the loop of _execute_checks begun
    passed,
    failed,
    skipped,
    total,          \* the total printed by _log_summary
    success,        \* the value Presubmit.run returns
    invoked,        \* the calls made to check functions, in order
    results,        \* the _Result of each call, in order
    behaviour,      \* what the check function called last did
    failures,       \* the PresubmitFailures the check functions can raise
    failure,        \* the PresubmitFailure the function called last raised
    logged,         \* what _call_function logged for the call made last
    cipd_pc,        \* where wrapper.init is: "idle" when it is not run
    client,         \* the file at the client path: <<>> or <<its bytes>>
    tmp,            \* the file at client + '.tmp': <<>> or <<its bytes>>
    installed_by,   \* who wrote the file at the client path last
    digests,        \* the lines of DIGESTS_FILE
    calls,          \* the calls init made, in order, with their results
    retrying,       \* init is in its except CalledProcessError clause
    requests,       \* iterations of the loop of client_bytes so far
    conn_host,      \* conn.host of client_bytes
    request_path,   \* path of client_bytes
    sent,           \* the request sent last
    res,            \* the response received last
    prev_res,       \* the response received before it
    download,       \* what client_bytes returned to bootstrap
    cipd_error      \* the exception that left init

presubmit_vars == <<git_stdout, files, cli_exclude, max_lines, main_pc, is_git_repo, listed, returned,
          exit_code, handlers, summary, full_program, paths, keep_going, pc,
          program, i, passed, failed, skipped, total, success, invoked,
          results, behaviour, failures, failure, logged>>

cipd_vars == <<cipd_pc, client, tmp, installed_by, digests, calls, retrying,
               requests, conn_host, request_path, sent, res, prev_res,
               download, cipd_error>>

vars == <<presubmit_vars, cipd_vars>>

----------------------------------------------------------------------------
(* Bounds *)

MaxChecks == 3
MaxPaths == 2
MaxSuffixes == 2
MaxExcludes == 1
MaxNameLen == 4
MaxListing == 3
MaxFiles == 4
MaxLines == 2
MaxFailing == 2

----------------------------------------------------------------------------
(* Sequence helpers *)

Range(s) == {s[k] : k \in 1..Len(s)}

SeqsUpTo(S, n) == UNION {[1..m -> S] : m \in 0..n}

----------------------------------------------------------------------------
(* str.endswith and re *)

\* str.endswith(end)
EndsWith(s, end) ==
    /\ Len(end) <= Len(s)
    /\ SubSeq(s, Len(s) - Len(end) + 1, Len(s)) = end

\* One pattern character against one character of the subject.  The
\* patterns of the model use literal characters, "." and a postfix "*".
CharMatches(c, ch) == c = "." \/ c = ch

\* Does pattern p match at the start of s: the whole of s when whole is
\* TRUE, some prefix of s otherwise.
RECURSIVE MatchHere(_, _, _)
MatchHere(p, s, whole) ==
    IF p = <<>> THEN (~whole \/ s = <<>>)
    ELSE IF Len(p) >= 2 /\ p[2] = "*"
    THEN \E k \in 0..Len(s) :
            /\ \A j \in 1..k : CharMatches(p[1], s[j])
            /\ MatchHere(SubSeq(p, 3, Len(p)), SubSeq(s, k + 1, Len(s)), whole)
    ELSE /\ s # <<>>
         /\ CharMatches(p[1], s[1])
         /\ MatchHere(Tail(p), Tail(s), whole)

\* re.compile(exp).search(s)
search(exp, s) == \E k \in 0..Len(s) : MatchHere(exp, SubSeq(s, k + 1, Len(s)), FALSE)

\* re.compile(exp).fullmatch(s)
fullmatch(exp, s) == MatchHere(exp, s, TRUE)

----------------------------------------------------------------------------
(* _PathFilter, _Check, filter_paths *)

\* A function: its __name__ and len(signature(function).parameters)
Function(name, nparams) == [name |-> name, nparams |-> nparams]

\* A str argument is [isstr |-> TRUE, v |-> the string]; a tuple of strs is
\* [isstr |-> FALSE, v |-> the tuple].
StrArg(s) == [isstr |-> TRUE, v |-> s]
TupleArg(t) == [isstr |-> FALSE, v |-> t]

\* Variant of _make_tuple: tuple(value) also for a str, whose elements are
\* its characters; both arguments are empty in the places the model uses it
_make_tuple_OfStr(value) == value.v

\* _make_tuple(value): tuple([value] if isinstance(value, str) else value)
_make_tuple(value) == IF value.isstr THEN <<value.v>> ELSE value.v

\* _PathFilter(endswith, exclude)
_PathFilter(endswith, exclude) == [endswith |-> endswith, exclude |-> exclude]

\* _PathFilter(): endswith = ('',), exclude = ()
DefaultPathFilter == _PathFilter(<< <<>> >>, <<>>)

\* The default of the always_run parameter of _Check.__init__
CheckDefaultAlwaysRun == TRUE

\* _Check(check_function, path_filter, always_run).  id is the identity of
\* the object: _Check defines neither __eq__ nor __hash__.
_Check(id, check_function, path_filter, always_run) ==
    [id |-> id, fn |-> check_function, filter |-> path_filter,
     always_run |-> always_run]

\* Variant of FilterPathsDefaultAlwaysRun: the default of _Check.__init__
FilterPathsDefaultAlwaysRun_True == TRUE

\* The defaults of the parameters of filter_paths: endswith = (''), which
\* is the str '', exclude = (), always_run = False
FilterPathsDefaultEndswith == StrArg(<<>>)
FilterPathsDefaultExclude == TupleArg(<<>>)

FilterPathsDefaultAlwaysRun == FALSE

\* What filter_paths_for_function raises instead of returning a _Check
TypeError == [raised |-> "TypeError"]

\* filter_paths(endswith, exclude, always_run)(function)
filter_paths(id, function, endswith, exclude, always_run) ==
    IF function.nparams # 1 THEN TypeError
    ELSE _Check(id, function,
                _PathFilter(_make_tuple(endswith), _make_tuple(exclude)),
                always_run)

\* An entry of a program is a _Check or a bare callable.
CheckEntry(c) == [is_check |-> TRUE, check |-> c]
CallableEntry(function) == [is_check |-> FALSE, fn |-> function]

----------------------------------------------------------------------------
(* _apply_filters and _map_checks_to_paths *)

\* The identity of the _Check that _apply_filters builds around the bare
\* callable at position k: a new object for each position.
FreshId(k) == 100 + k

\* checks = [c if isinstance(c, _Check) else _Check(c) for c in program]
WrapAll(prog) ==
    [k \in 1..Len(prog) |->
        IF prog[k].is_check THEN prog[k].check
        ELSE _Check(FreshId(k), prog[k].fn, DefaultPathFilter,
                    CheckDefaultAlwaysRun)]

\* Variant of PathSelected: exp.search in place of exp.fullmatch
PathSelected_Search(filt, path) ==
    /\ \E k \in 1..Len(filt.endswith) : EndsWith(path, filt.endswith[k])
    /\ ~ \E k \in 1..Len(filt.exclude) : search(filt.exclude[k], path)

\* The condition of the generator expression of _map_checks_to_paths
PathSelected(filt, path) ==
    /\ \E k \in 1..Len(filt.endswith) : EndsWith(path, filt.endswith[k])
    /\ ~ \E k \in 1..Len(filt.exclude) : fullmatch(filt.exclude[k], path)

\* filtered_paths of _map_checks_to_paths for one filter
FilteredPaths(filt, universe) ==
    SelectSeq(universe, LAMBDA path : PathSelected(filt, path))

\* Variants of KeepCheck: every check is kept; always_run is ignored
KeepCheck_Always(filtered_paths, check) == TRUE
KeepCheck_OnlyMatches(filtered_paths, check) == filtered_paths # <<>>

\* if filtered_paths or check.always_run
KeepCheck(filtered_paths, check) == filtered_paths # <<>> \/ check.always_run

\* Variant of FilterToChecks: filter_to_checks[check.filter] = [check], so
\* a group holds the last check with its filter only
FilterToChecks_Overwrite(checks) ==
    [filt \in {c.filter : c \in Range(checks)} |->
        LET group == SelectSeq(checks, LAMBDA c : c.filter = filt)
        IN  << group[Len(group)] >>]

\* filter_to_checks of _apply_filters: the checks grouped by the value of
\* their filter, each group in the order of the program
FilterToChecks(checks) ==
    [filt \in {c.filter : c \in Range(checks)} |->
        SelectSeq(checks, LAMBDA c : c.filter = filt)]

\* _map_checks_to_paths: checks_to_paths, a dict keyed by the identity of
\* the check.  filtered_paths is computed once for each filter and given to
\* every kept check of its group.
_map_checks_to_paths(filter_to_checks, universe) ==
    LET items == UNION {
            LET filtered_paths == FilteredPaths(filt, universe)
            IN  { <<check.id, filtered_paths>> :
                    check \in {c \in Range(filter_to_checks[filt]) :
                                  KeepCheck(filtered_paths, c)} } :
            filt \in DOMAIN filter_to_checks }
    IN  [id \in {item[1] : item \in items} |->
            (CHOOSE item \in items : item[1] = id)[2]]

\* Variant of _apply_filters: list(check_to_paths.items()), the checks in
\* the order of the dict: group after group, a check object once
_apply_filters_DictOrder(prog, universe) ==
    LET checks == WrapAll(prog)
        check_to_paths == _map_checks_to_paths(FilterToChecks(checks), universe)
        first(k) == CHOOSE m \in 1..k :
                        /\ checks[m].filter = checks[k].filter
                        /\ \A n \in 1..(m - 1) : checks[n].filter # checks[k].filter
        keys == {k \in 1..Len(checks) :
                    /\ checks[k].id \in DOMAIN check_to_paths
                    /\ \A n \in 1..(k - 1) : checks[n].id # checks[k].id}
        before(j, k) == first(j) < first(k) \/ (first(j) = first(k) /\ j < k)
        order == CHOOSE f \in [1..Cardinality(keys) -> keys] :
                    \A a, b \in 1..Cardinality(keys) :
                        a < b => before(f[a], f[b])
    IN  [k \in 1..Cardinality(keys) |->
            [check |-> checks[order[k]],
             paths |-> check_to_paths[checks[order[k]].id]]]

\* Variant of _apply_filters: the result is keyed by check.name, so of the
\* kept checks with one name only the first stays
_apply_filters_DedupNames(prog, universe) ==
    LET checks == WrapAll(prog)
        check_to_paths == _map_checks_to_paths(FilterToChecks(checks), universe)
        keys == {k \in 1..Len(checks) :
                    /\ checks[k].id \in DOMAIN check_to_paths
                    /\ \A n \in 1..(k - 1) :
                        checks[n].id \in DOMAIN check_to_paths =>
                            checks[n].fn.name # checks[k].fn.name}
        order == CHOOSE f \in [1..Cardinality(keys) -> keys] :
                    \A a, b \in 1..Cardinality(keys) : a < b => f[a] < f[b]
    IN  [k \in 1..Cardinality(keys) |->
            [check |-> checks[order[k]],
             paths |-> check_to_paths[checks[order[k]].id]]]

\* [(c, check_to_paths[c]) for c in checks if c in check_to_paths]
_apply_filters(prog, universe) ==
    LET checks == WrapAll(prog)
        check_to_paths == _map_checks_to_paths(FilterToChecks(checks), universe)
        kept == SelectSeq(checks, LAMBDA c : c.id \in DOMAIN check_to_paths)
    IN  [k \in 1..Len(kept) |->
            [check |-> kept[k], paths |-> check_to_paths[kept[k].id]]]

----------------------------------------------------------------------------
(* The repository *)

\* Presubmit._repository_root
repository_root == <<"/", "r">>

\* Presubmit._output_directory
output_directory == <<"/", "o">>

\* Path.joinpath: an absolute second path replaces the first, an empty one
\* adds nothing
joinpath(root, p) ==
    IF p = <<>> THEN root
    ELSE IF p[1] = "/" THEN p
    ELSE root \o <<"/">> \o p

----------------------------------------------------------------------------
(* pathlib.Path, list_git_files, file_summary *)

\* The characters of the model in the order of their code points
CodePoints == <<" ", "!", ".", "/", "2", "A", "B", "C", "H", "M", "_", "a",
                "b", "c", "d", "e", "g", "h", "k", "o", "p", "r", "y">>

\* ord(c), up to the order
ord(c) == CHOOSE k \in 1..Len(CodePoints) : CodePoints[k] = c

\* a < b for two strs
RECURSIVE StrLess(_, _)
StrLess(a, b) ==
    IF b = <<>> THEN FALSE
    ELSE IF a = <<>> THEN TRUE
    ELSE IF a[1] = b[1] THEN StrLess(Tail(a), Tail(b))
    ELSE ord(a[1]) < ord(b[1])

\* s.split('/')
RECURSIVE split(_)
split(s) ==
    IF s = <<>> THEN << <<>> >>
    ELSE LET rest == split(Tail(s))
         IN  IF s[1] = "/" THEN << <<>> >> \o rest
             ELSE << <<s[1]>> \o rest[1] >> \o Tail(rest)

\* Path(p).parts: the root, when there is one, and the names
parts(p) ==
    (IF p # <<>> /\ p[1] = "/" THEN << <<"/">> >> ELSE <<>>)
        \o SelectSeq(split(p), LAMBDA name : name # <<>>)

\* x < y for two tuples of strs
RECURSIVE PartsLess(_, _)
PartsLess(x, y) ==
    IF y = <<>> THEN FALSE
    ELSE IF x = <<>> THEN TRUE
    ELSE IF x[1] = y[1] THEN PartsLess(Tail(x), Tail(y))
    ELSE StrLess(x[1], y[1])

\* Path(p) < Path(q): the paths compare as their parts
PathLess(p, q) == PartsLess(parts(p), parts(q))

\* sorted(S) for a set of paths
RECURSIVE sorted(_)
sorted(S) ==
    IF S = {} THEN <<>>
    ELSE LET least == CHOOSE x \in S : \A y \in S \ {x} : PathLess(x, y)
         IN  <<least>> \o sorted(S \ {least})

\* _git_ls_files and git_diff_names: os.path.abspath(os.path.join(repo,
\* path)) for every name git prints
_git_ls_files(names, repo) ==
    [k \in 1..Len(names) |-> joinpath(repo, names[k])]

\* Variant of list_git_files: the paths that are not excluded, as git
\* printed them
list_git_files_Unsorted(names, excl, repo) ==
    SelectSeq(_git_ls_files(names, repo),
              LAMBDA path : ~ \E k \in 1..Len(excl) : search(excl[k], path))

\* list_git_files: sorted(set(Path(path) for path in files
\*                            if not any(exp.search(path) for exp in exclude)))
list_git_files(names, excl, repo) ==
    sorted(Range(SelectSeq(_git_ls_files(names, repo),
              LAMBDA path : ~ \E k \in 1..Len(excl) : search(excl[k], path))))

\* path.relative_to(root) for a path under root
relative_to(path, root) ==
    IF Len(path) > Len(root) + 1 /\ SubSeq(path, 1, Len(root) + 1) = root \o <<"/">>
    THEN SubSeq(path, Len(root) + 2, Len(path))
    ELSE <<>>

\* The defaults of the parameters levels and max_lines of file_summary
DefaultLevels == 2
DefaultMaxLines == 12

\* path.suffix of a name: from its last dot, which is neither its first
\* nor its last character
suffix(name) ==
    LET dots == {k \in 2..(Len(name) - 1) : name[k] = "."}
    IN  IF dots = {} THEN <<>>
        ELSE SubSeq(name, CHOOSE k \in dots : \A j \in dots : j <= k, Len(name))

\* path.parents[max(len(path.parents) - levels, 0)] of a relative path, as
\* parts: parents[j] is the path without its last j + 1 names
Parent(path, levels) ==
    LET p == parts(path)
        index == IF Len(p) - levels > 0 THEN Len(p) - levels ELSE 0
    IN  SubSeq(p, 1, Len(p) - 1 - index)

\* The keys of all_counts in the order they were inserted
RECURSIVE Keys(_, _)
Keys(ps, levels) ==
    IF ps = <<>> THEN <<>>
    ELSE LET before == Keys(SubSeq(ps, 1, Len(ps) - 1), levels)
             parent == Parent(ps[Len(ps)], levels)
         IN  IF parent \in Range(before) THEN before ELSE Append(before, parent)

\* all_counts.items(): each directory with its Counter, the suffix of
\* every path counted under the directory
all_counts(ps, levels) ==
    LET keys == Keys(ps, levels)
    IN  [k \in 1..Len(keys) |->
            LET mine == SelectSeq(ps, LAMBDA q : Parent(q, levels) = keys[k])
            IN  [path |-> keys[k],
                 others |-> 0,
                 files |-> [j \in 1..Len(mine) |->
                              suffix(parts(mine[j])[Len(parts(mine[j]))])]]]

\* sorted(items, key=lambda item: -sum(item[1].values())): the sort is
\* stable
RECURSIVE SortByFiles(_)
SortByFiles(items) ==
    IF items = <<>> THEN <<>>
    ELSE LET first == CHOOSE k \in 1..Len(items) :
                  /\ \A j \in 1..Len(items) :
                        Len(items[j].files) <= Len(items[k].files)
                  /\ \A j \in 1..(k - 1) :
                        Len(items[j].files) < Len(items[k].files)
         IN  <<items[first]>>
                \o SortByFiles(SubSeq(items, 1, first - 1)
                                  \o SubSeq(items, first + 1, Len(items)))

\* sorted(items): the directories are distinct, so the items are ordered by
\* directory
RECURSIVE SortByPath(_)
SortByPath(items) ==
    IF items = <<>> THEN <<>>
    ELSE LET first == CHOOSE k \in 1..Len(items) :
                  \A j \in 1..Len(items) :
                        j # k => PartsLess(items[k].path, items[j].path)
         IN  <<items[first]>>
                \o SortByPath(SubSeq(items, 1, first - 1)
                                 \o SubSeq(items, first + 1, Len(items)))

\* sum((c for _, c in others), Counter())
RECURSIVE SumCounters(_)
SumCounters(items) ==
    IF items = <<>> THEN <<>> ELSE items[1].files \o SumCounters(Tail(items))

\* Variant of file_summary: directories are never condensed
file_summary_NoLimit(ps, levels, maxl) ==
    LET counts == SortByPath(all_counts(ps, levels))
    IN  [k \in 1..Len(counts) |->
            [path |-> counts[k].path, others |-> counts[k].others,
             total |-> Len(counts[k].files)]]

\* file_summary(paths, levels, max_lines): a line is the directory, or the
\* number of directories condensed into it, and the total of its files;
\* the file types of the line are left out
file_summary(ps, levels, maxl) ==
    LET all == all_counts(ps, levels)
        by_files == SortByFiles(all)
        others == SubSeq(by_files, maxl, Len(by_files))
        counts == IF Len(all) > maxl
                  THEN Append(SortByPath(SubSeq(by_files, 1, maxl - 1)),
                              [path |-> <<>>, others |-> Len(others),
                               files |-> SumCounters(others)])
                  ELSE SortByPath(all)
    IN  [k \in 1..Len(counts) |->
            [path |-> counts[k].path, others |-> counts[k].others,
             total |-> Len(counts[k].files)]]

----------------------------------------------------------------------------
(* Presubmit._context and _Check.run *)

\* The characters of the names of the model: letters, digits, and the
\* characters that are neither
LowerLetters == {"a", "b", "c", "e", "h", "k", "y"}
UpperLetters == {"A", "B", "C", "M"}
Digits == {"2"}
Alphanumeric == LowerLetters \cup UpperLetters \cup Digits

\* Variant of InClass: the class \W, which the underscore is not in
InClass_NonWord(c) == c \notin Alphanumeric \cup {"_"}

\* The class [\W_] of the pattern of Presubmit._context: a character that
\* is not a word character, or the underscore
InClass(c) == c \notin Alphanumeric

\* The length of the longest prefix of s made of characters of the class
RECURSIVE RunLength(_)
RunLength(s) ==
    IF s # <<>> /\ InClass(s[1]) THEN 1 + RunLength(Tail(s)) ELSE 0

\* re.sub(r'[\W_]+', '_', name): from left to right, every longest run of
\* characters of the class is replaced by one underscore
RECURSIVE re_sub(_)
re_sub(name) ==
    IF name = <<>> THEN <<>>
    ELSE IF InClass(name[1])
         THEN <<"_">> \o re_sub(SubSeq(name, RunLength(name) + 1, Len(name)))
         ELSE <<name[1]>> \o re_sub(Tail(name))

\* str.lower() on one character
LowerChar(c) ==
    CASE c = "A" -> "a"
      [] c = "B" -> "b"
      [] c = "C" -> "c"
      [] c = "M" -> "m"
      [] OTHER -> c

\* str.lower()
lower(s) == [k \in 1..Len(s) |-> LowerChar(s[k])]

\* sanitized_name = re.sub(r'[\W_]+', '_', name).lower()
SanitizedName(name) == lower(re_sub(name))

\* Variant of ContextPaths: the paths are not joined to the root
ContextPaths_Unjoined(root, subset) == subset

\* paths = [self._repository_root.joinpath(p) for p in paths]
ContextPaths(root, subset) ==
    [k \in 1..Len(subset) |-> joinpath(root, subset[k])]

\* What a check function does when called
Behaviours == {"return", "PresubmitFailure", "Exception",
               "KeyboardInterrupt", "SystemExit"}

\* Variants of _call_function: without the except KeyboardInterrupt clause
\* the interrupt is not caught; without the except Exception clause only
\* PresubmitFailure is caught
_call_function_NoInterruptClause(b) ==
    CASE b = "return" -> "PASS"
      [] b = "PresubmitFailure" -> "FAIL"
      [] b = "Exception" -> "FAIL"
      [] OTHER -> "raise"
_call_function_NoBroadExcept(b) ==
    CASE b = "return" -> "PASS"
      [] b = "PresubmitFailure" -> "FAIL"
      [] b = "KeyboardInterrupt" -> "CANCEL"
      [] OTHER -> "raise"

\* _Check._call_function: the _Result, or "raise" for what none of the
\* except clauses catches
_call_function(b) ==
    CASE b = "return" -> "PASS"
      [] b = "PresubmitFailure" -> "FAIL"
      [] b = "Exception" -> "FAIL"
      [] b = "KeyboardInterrupt" -> "CANCEL"
      [] OTHER -> "raise"

\* Variants of StopsLoop: a failure never breaks; a failure always breaks;
\* a cancellation breaks only when keep_going is false
StopsLoop_NeverOnFail(result, keep) == result = "CANCEL"
StopsLoop_AlwaysOnFail(result, keep) == result \in {"CANCEL", "FAIL"}
StopsLoop_CancelKeepsGoing(result, keep) ==
    result \in {"CANCEL", "FAIL"} /\ ~keep

\* The breaks of the loop of _execute_checks
StopsLoop(result, keep) ==
    \/ result = "CANCEL"
    \/ result = "FAIL" /\ ~keep

\* Variant of Skipped: the failed checks are not subtracted
Skipped_FailedCounted(n, npassed, nfailed) == n - npassed

\* The third element of the tuple _execute_checks returns
Skipped(n, npassed, nfailed) == n - npassed - nfailed

\* Variant of Success: not failed
Success_IgnoresSkipped(nfailed, nskipped) == nfailed = 0

\* The value Presubmit.run returns: not failed and not skipped
Success(nfailed, nskipped) == nfailed = 0 /\ nskipped = 0

\* Variant of ReturnsEarly: run_presubmit goes on whatever is_git_repo says
ReturnsEarly_Never(is_repo) == FALSE

\* if not is_git_repo(repository): return False
ReturnsEarly(is_repo) == ~is_repo

\* run_presubmit up to the call of presubmit.run: the directory is not in
\* a Git repository and run_presubmit returns False, or the files are
\* listed, made relative to the root, and the Presubmit is constructed
RunPresubmit ==
    /\ main_pc = "main"
    /\ \E is_repo \in BOOLEAN :
        /\ is_git_repo' = IF is_repo THEN "yes" ELSE "no"
        /\ IF ReturnsEarly(is_repo)
           THEN /\ returned' = FALSE
                /\ main_pc' = "returned"
                /\ UNCHANGED <<listed, files, paths>>
           ELSE /\ listed' = TRUE
                /\ files' = list_git_files(git_stdout, cli_exclude,
                                           repository_root)
                /\ paths' = [k \in 1..Len(files') |->
                                relative_to(files'[k], repository_root)]
                /\ main_pc' = "run"
                /\ UNCHANGED returned
    /\ UNCHANGED <<failures, failure, logged>>
    /\ UNCHANGED cipd_vars
    /\ UNCHANGED <<git_stdout, cli_exclude, max_lines, exit_code, handlers,
                   summary,
                   full_program, keep_going, pc, program, i, passed, failed,
                   skipped, total, success, invoked, results, behaviour>>

\* Presubmit.run up to the call of _execute_checks
Run ==
    /\ main_pc = "run"
    /\ pc = "init"
    /\ program' = _apply_filters(full_program, paths)
    /\ summary' = file_summary(paths, DefaultLevels, max_lines)
    /\ passed' = 0
    /\ failed' = 0
    /\ i' = 0
    /\ pc' = IF Len(program') = 0 THEN "return" ELSE "loop"
    /\ UNCHANGED <<failures, failure, logged>>
    /\ UNCHANGED cipd_vars
    /\ UNCHANGED <<git_stdout, files, cli_exclude,
                   max_lines, main_pc, is_git_repo, listed,
                   returned, exit_code, handlers, full_program, paths,
                   keep_going, skipped, total, success, invoked, results,
                   behaviour>>

\* Variant of NextItem: the loop stays on the item it has begun
NextItem_Same(n) == IF n = 0 THEN 1 ELSE n

\* for i, (check, paths) in enumerate(program, 1): the index of the item
\* that follows item n
NextItem(n) == n + 1

\* output_directory of Presubmit._context
ContextDirectory(name) == joinpath(output_directory, SanitizedName(name))

\* The handler of the context of the item at position count: a new
\* logging.FileHandler on step.log of the output directory
Handler(count, name) ==
    [count |-> count,
     file |-> joinpath(ContextDirectory(name),
                       <<"s", "t", "e", "p", ".", "l", "o", "g">>)]

\* Variant of LeaveContext: the handler is removed when the body of the
\* with statement ends without an exception only
LeaveContext_NoFinally(hs, handler, result) ==
    IF result = "raise" THEN hs ELSE hs \ {handler}

\* finally: _LOG.removeHandler(handler), however the body of the with
\* statement ends
LeaveContext(hs, handler, result) == hs \ {handler}

\* The start of an iteration of the loop of _execute_checks: the context
\* is entered and check.run calls the check function
StartCheck ==
    /\ pc = "loop"
    /\ i < Len(program)
    /\ i' = NextItem(i)
    /\ LET check == program[i'].check
       IN  /\ invoked' = Append(invoked,
                [count |-> i',
                 id |-> check.id,
                 fn |-> check.fn,
                 paths |-> ContextPaths(repository_root, program[i'].paths),
                 output_directory |-> ContextDirectory(check.fn.name)])
           /\ handlers' = handlers \cup {Handler(i', check.fn.name)}
    /\ behaviour' = "running"
    /\ failure' = <<>>
    /\ logged' = <<>>
    /\ pc' = "call"
    /\ UNCHANGED failures
    /\ UNCHANGED cipd_vars
    /\ UNCHANGED <<git_stdout, files, cli_exclude,
                   max_lines, main_pc, is_git_repo, listed,
                   returned, exit_code, summary, full_program, paths,
                   keep_going, program, passed, failed, skipped, total,
                   success, results>>

\* path=None of PresubmitFailure.__init__
NoPath == <<>>

\* PresubmitFailure(description, path)
PresubmitFailure(description, path) ==
    [description |-> description, path |-> path]

\* str(failure): the message PresubmitFailure.__init__ hands to Exception,
\* f'{path}: {description}' if path else description
str(f) ==
    IF f.path # NoPath THEN f.path \o <<":", " ">> \o f.description
    ELSE f.description

\* What the call raised as a PresubmitFailure: one of the failures the
\* functions can raise, and nothing for another behaviour
Raised(b, pool) ==
    IF b = "PresubmitFailure" THEN {<<f>> : f \in pool} ELSE {<<>>}

\* Variant of LogsWarning: the test is on the description
LogsWarning_Description(f) == f.description # <<>>

\* if str(failure): _LOG.warning('%s', failure)
LogsWarning(f) == str(f) # <<>>

\* 'Presubmit check %s failed!' % name
FailedMessage(name) ==
    <<"P", "r", "e", "s", "u", "b", "m", "i", "t", " ", "c", "h", "e", "c",
      "k", " ">> \o name \o <<" ", "f", "a", "i", "l", "e", "d", "!">>

\* The records _call_function logs: a warning with the message of a
\* PresubmitFailure whose message is not empty, an error for another
\* Exception
Logged(b, raised, name) ==
    IF b = "PresubmitFailure"
    THEN IF LogsWarning(raised[1])
         THEN << [level |-> "WARNING", message |-> str(raised[1])] >>
         ELSE <<>>
    ELSE IF b = "Exception"
    THEN << [level |-> "ERROR", message |-> FailedMessage(name)] >>
    ELSE <<>>

\* Variant of CountPassed: a cancelled check is counted as passed
CountPassed_CancelPasses(result, n) ==
    IF result \in {"PASS", "CANCEL"} THEN n + 1 ELSE n

\* if result is _Result.PASS: passed += 1
CountPassed(result, n) == IF result = "PASS" THEN n + 1 ELSE n

\* elif result is _Result.CANCEL: break; else: failed += 1
CountFailed(result, n) ==
    IF result = "PASS" THEN n
    ELSE IF result = "CANCEL" THEN n
    ELSE n + 1

\* What calling the function with one argument can do: a function that
\* does not take exactly one parameter raises TypeError, an Exception
CanDo(function) ==
    IF function.nparams = 1 THEN Behaviours ELSE {"Exception"}

\* The end of an iteration: the call ends, _call_function classifies it,
\* the context is left and the result is counted
EndCheck ==
    /\ pc = "call"
    /\ \E b \in CanDo(program[i].check.fn) : \E raised \in Raised(b, failures) :
        LET result == _call_function(b)
        IN  /\ behaviour' = b
            /\ failure' = raised
            /\ logged' = Logged(b, raised, program[i].check.fn.name)
            /\ handlers' = LeaveContext(handlers,
                                        Handler(i, program[i].check.fn.name),
                                        result)
            /\ IF result = "raise"
               THEN /\ pc' = "raised"
                    /\ UNCHANGED <<passed, failed, results>>
               ELSE /\ results' = Append(results, result)
                    /\ passed' = CountPassed(result, passed)
                    /\ failed' = CountFailed(result, failed)
                    /\ pc' = IF StopsLoop(result, keep_going) THEN "return"
                             ELSE IF i = Len(program) THEN "return"
                             ELSE "loop"
    /\ UNCHANGED failures
    /\ UNCHANGED cipd_vars
    /\ UNCHANGED <<git_stdout, files, cli_exclude,
                   max_lines, main_pc, is_git_repo, listed,
                   returned, exit_code, summary, full_program, paths,
                   keep_going, program, i, skipped, total, success, invoked>>

\* Variant of Total: the checks that were not run are left out
Total_Completed(npassed, nfailed, nskipped) == npassed + nfailed

\* total of _log_summary
Total(npassed, nfailed, nskipped) == npassed + nfailed + nskipped

\* The return of _execute_checks, _log_summary, the return of run and the
\* return of run_presubmit, which returns what run returns
Finish ==
    /\ pc = "return"
    /\ skipped' = Skipped(Len(program), passed, failed)
    /\ total' = Total(passed, failed, skipped')
    /\ success' = Success(failed, skipped')
    /\ returned' = success'
    /\ pc' = "done"
    /\ main_pc' = "returned"
    /\ UNCHANGED <<failures, failure, logged>>
    /\ UNCHANGED cipd_vars
    /\ UNCHANGED <<git_stdout, files, cli_exclude,
                   max_lines, is_git_repo, listed, exit_code,
                   handlers, summary, full_program, paths, keep_going,
                   program, i, passed, failed, invoked, results, behaviour>>

\* Variant of ExitCode: the process exits with 0 whatever was returned
ExitCode_Zero(value) == 0

\* 0 if parse_args_and_run_presubmit([pragma_once]) else 1
ExitCode(value) == IF value THEN 0 ELSE 1

\* sys.exit of __main__ with what run_presubmit returned
Exit ==
    /\ main_pc = "returned"
    /\ exit_code' = <<ExitCode(returned)>>
    /\ main_pc' = "exit"
    /\ UNCHANGED <<failures, failure, logged>>
    /\ UNCHANGED cipd_vars
    /\ UNCHANGED <<git_stdout, files, cli_exclude,
                   max_lines, is_git_repo, listed, returned,
                   handlers, summary, full_program, paths, keep_going, pc,
                   program, i, passed, failed, skipped, total, success,
                   invoked, results, behaviour>>

\* The exit codes a check function can give to sys.exit
SystemExitCodes == {0, 1}

\* The SystemExit that a check function raised leaves run, run_presubmit
\* and __main__: the process exits with the code of the exception
Propagate ==
    /\ main_pc = "run"
    /\ pc = "raised"
    /\ \E code \in SystemExitCodes : exit_code' = <<code>>
    /\ main_pc' = "exit"
    /\ UNCHANGED <<failures, failure, logged>>
    /\ UNCHANGED cipd_vars
    /\ UNCHANGED <<git_stdout, files, cli_exclude,
                   max_lines, is_git_repo, listed, returned,
                   handlers, summary, full_program, paths, keep_going, pc,
                   program, i, passed, failed, skipped, total, success,
                   invoked, results, behaviour>>

Next == RunPresubmit \/ Run \/ StartCheck \/ EndCheck \/ Finish \/ Exit
            \/ Propagate

----------------------------------------------------------------------------
(* cipd_setup/wrapper.py: init, bootstrap, client_bytes, selfupdate *)

\* CIPD_HOST
CIPD_HOST ==
    <<"c", "h", "r", "o", "m", "e", "-", "i", "n", "f", "r", "a", "-",
    "p", "a", "c", "k", "a", "g", "e", "s", ".", "a", "p", "p", "s", "p",
    "o", "t", ".", "c", "o", "m">>

\* The host of the docstring of client_bytes
StorageHost ==
    <<"s", "t", "o", "r", "a", "g", "e", ".", "g", "o", "o", "g", "l",
    "e", "a", "p", "i", "s", ".", "c", "o", "m">>

\* '{}-{}'.format(platform_normalized(), arch_normalized())
expected_plat == <<"l", "i", "n", "u", "x", "-", "a", "m", "d", "6", "4">>

\* The content of VERSION_FILE, stripped
version == <<"v", "1">>

\* path of client_bytes before the loop
ClientPath ==
    <<"/", "c", "l", "i", "e", "n", "t", "?", "p", "l", "a", "t", "f",
    "o", "r", "m", "=">>
        \o expected_plat \o <<"&", "v", "e", "r", "s", "i", "o", "n", "=">> \o version

\* httplib.OK and httplib.FOUND
OK == 200
FOUND == 302

\* for _ in range(10)
MaxRequests == 10

\* Position of the first element of s at or after from that is in cs, and
\* Len(s) + 1 when there is none
RECURSIVE Find(_, _, _)
Find(s, cs, from) ==
    IF from > Len(s) THEN Len(s) + 1
    ELSE IF s[from] \in cs THEN from
    ELSE Find(s, cs, from + 1)

\* urlparse.urlparse(location): the scheme before the first ":", the netloc
\* between "//" and the next "/", "?" or "#", the fragment after "#", and
\* the query after "?"
urlparse(location) ==
    LET p == Find(location, {":", "/", "?", "#"}, 1)
        scheme_end == IF p > 1 /\ p <= Len(location) /\ location[p] = ":"
                      THEN p ELSE 0
        rest == SubSeq(location, scheme_end + 1, Len(location))
        slashes == Len(rest) >= 2 /\ rest[1] = "/" /\ rest[2] = "/"
        netloc_end == IF slashes THEN Find(rest, {"/", "?", "#"}, 3) - 1
                      ELSE 0
        after == SubSeq(rest, netloc_end + 1, Len(rest))
        nofrag == SubSeq(after, 1, Find(after, {"#"}, 1) - 1)
        qmark == Find(nofrag, {"?"}, 1)
    IN  [scheme |-> SubSeq(location, 1, scheme_end - 1),
         netloc |-> IF slashes THEN SubSeq(rest, 3, netloc_end) ELSE <<>>,
         path |-> SubSeq(nofrag, 1, qmark - 1),
         query |-> SubSeq(nofrag, qmark + 1, Len(nofrag))]

\* Variant of Breaks: no status ends the loop
Breaks_Never(status) == FALSE

\* The else: break of the loop of client_bytes
Breaks(status) == status # OK /\ status # FOUND

\* if url.netloc != conn.host: conn = httplib.HTTPSConnection(url.netloc)
RedirectHost(host, url) == IF url.netloc # host THEN url.netloc ELSE host

\* path = '{}?{}'.format(url.path, url.query)
RedirectPath(url) == url.path \o <<"?">> \o url.query

\* hashlib.sha256().hexdigest() of a bytes object: digests of different
\* bytes differ
sha256(bytes) == <<"sha256">> \o bytes

\* actual_hash(path), of a file with these bytes
actual_hash(bytes) == sha256(bytes)

\* expected_hash(): the hashval of the first line of DIGESTS_FILE for this
\* platform and sha256, as <<hashval>>, and <<>> when it raises
RECURSIVE expected_hash(_)
expected_hash(lines) ==
    IF lines = <<>> THEN <<>>
    ELSE IF Head(lines).hashtype = "sha256" /\ Head(lines).plat = expected_plat
    THEN << Head(lines).hashval >>
    ELSE expected_hash(Tail(lines))

\* The messages of the exceptions of wrapper.py
FailedToDownload == "failed to download client"
DigestIncorrect ==
    "digest of downloaded CIPD client is incorrect, check that digests file is current"
PlatformNotInDigests == "platform not in digests file"

\* Variant of DigestMatches: the digests are not compared
DigestMatches_Always(expected, actual) == TRUE

\* if expected != actual: raise
DigestMatches(expected, actual) == expected = actual

\* What bootstrap does with the bytes client_bytes returned: "ok" when it
\* renames the .tmp file to the client path, and the message of the
\* exception it raises otherwise
bootstrap_Result(bytes, lines) ==
    LET expected == expected_hash(lines)
    IN  IF expected = <<>> THEN PlatformNotInDigests
        ELSE IF ~DigestMatches(expected[1], actual_hash(bytes))
        THEN DigestIncorrect
        ELSE "ok"

\* os.path.isfile(client)
isfile(file) == file # <<>>

\* One call of init, with its result
Call(op, result) == [op |-> op, result |-> result]

\* The result of the call made last replaced
Finished(trace, result) ==
    [trace EXCEPT ![Len(trace)] = Call(trace[Len(trace)].op, result)]

\* Variant of Retries: every failed selfupdate is retried
Retries_Always(exit_status, in_handler) ==
    exit_status = "CalledProcessError"

\* except subprocess.CalledProcessError of init, which the selfupdate of
\* the clause itself is not inside
Retries(exit_status, in_handler) ==
    exit_status = "CalledProcessError" /\ ~in_handler

\* bootstrap up to the loop of client_bytes: the .tmp file is opened for
\* writing before client_bytes is called
bootstrap_Enter(trace) ==
    /\ calls' = trace \o << Call("bootstrap", "running") >>
    /\ tmp' = << <<>> >>
    /\ conn_host' = CIPD_HOST
    /\ request_path' = ClientPath
    /\ requests' = 0
    /\ sent' = <<>>
    /\ res' = <<>>
    /\ prev_res' = <<>>
    /\ download' = <<>>
    /\ cipd_pc' = "request"

\* init up to its first call: bootstrap when the client is not a file,
\* selfupdate otherwise
CipdInit ==
    /\ cipd_pc = "init"
    /\ LET found == isfile(client)
           trace == calls \o << Call("isfile", IF found THEN "True"
                                               ELSE "False") >>
       IN  IF ~found
           THEN bootstrap_Enter(trace)
           ELSE /\ calls' = trace
                /\ cipd_pc' = "selfupdate"
                /\ UNCHANGED <<tmp, conn_host, request_path, requests, sent,
                               res, prev_res, download>>
    /\ UNCHANGED <<client, installed_by, digests, retrying, cipd_error>>
    /\ UNCHANGED presubmit_vars

\* The responses of a server: content with OK, a location with FOUND
ContentPool == { <<"a">>, <<"b">> }
LocationPool ==
    { <<"h", "t", "t", "p", "s", ":", "/", "/">> \o CIPD_HOST
          \o <<"/", "c", "?", "v", "=", "1">>,
      <<"h", "t", "t", "p", "s", ":", "/", "/">> \o StorageHost
          \o <<"/", "b", "/", "c", "?", "k", "=", "2">>,
      <<"h", "t", "t", "p", "s", ":", "/", "/">> \o StorageHost
          \o <<"/", "b">> }
StatusPool == {OK, FOUND, 301, 404}
Responses ==
    {[status |-> OK, location |-> <<>>, content |-> c] : c \in ContentPool}
    \cup {[status |-> FOUND, location |-> l, content |-> <<>>] :
            l \in LocationPool}
    \cup {[status |-> st, location |-> <<>>, content |-> <<>>] :
            st \in StatusPool \ {OK, FOUND}}

\* One iteration of the loop of client_bytes, and what follows it when the
\* loop ends: the rest of bootstrap when client_bytes returns, and the
\* exception through bootstrap and init when it raises
Request ==
    /\ cipd_pc = "request"
    /\ requests < MaxRequests
    /\ \E response \in Responses :
        LET url == urlparse(response.location)
            returns == response.status = OK
            redirects == response.status = FOUND
            ends == Breaks(response.status) \/ requests + 1 = MaxRequests
            result == IF returns
                      THEN bootstrap_Result(response.content, digests)
                      ELSE FailedToDownload
        IN  /\ requests' = requests + 1
            /\ sent' = << [host |-> conn_host, path |-> request_path] >>
            /\ prev_res' = res
            /\ res' = << response >>
            /\ conn_host' = IF redirects THEN RedirectHost(conn_host, url)
                            ELSE conn_host
            /\ request_path' = IF redirects THEN RedirectPath(url)
                               ELSE request_path
            /\ download' = IF returns THEN << response.content >> ELSE <<>>
            /\ IF returns \/ ends
               THEN /\ calls' = Finished(calls, result)
                    /\ tmp' = IF ~returns THEN tmp
                              ELSE IF result = "ok" THEN <<>>
                              ELSE << response.content >>
                    /\ client' = IF result = "ok" THEN << response.content >>
                                 ELSE client
                    /\ installed_by' = IF result = "ok" THEN "bootstrap"
                                       ELSE installed_by
                    /\ cipd_error' = IF result = "ok" THEN cipd_error
                                     ELSE << result >>
                    /\ cipd_pc' = IF result = "ok" THEN "selfupdate"
                                  ELSE "raised"
               ELSE UNCHANGED <<calls, tmp, client, installed_by, cipd_error,
                                cipd_pc>>
    /\ UNCHANGED <<digests, retrying>>
    /\ UNCHANGED presubmit_vars

\* What subprocess.check_call of the client can do: return, raise
\* CalledProcessError for an exit status that is not zero, and raise
\* OSError when the file cannot be executed
SelfupdatePool == {"ok", "CalledProcessError", "OSError"}

\* selfupdate(client) in init and what follows it: the return of init, the
\* except clause with its bootstrap, or the exception out of init.  A
\* selfupdate that succeeds can have replaced the client
Selfupdate ==
    /\ cipd_pc = "selfupdate"
    /\ \E exit_status \in SelfupdatePool :
       \E updated \in {client} \cup {<< c >> : c \in ContentPool} :
        LET trace == calls \o << Call("selfupdate", exit_status) >>
        IN  IF exit_status = "ok"
            THEN /\ calls' = trace
                 /\ client' = updated
                 /\ installed_by' = IF updated # client THEN "selfupdate"
                                    ELSE installed_by
                 /\ cipd_pc' = "returned"
                 /\ UNCHANGED <<tmp, retrying, requests, conn_host,
                                request_path, sent, res, prev_res, download,
                                cipd_error>>
            ELSE IF Retries(exit_status, retrying)
            THEN /\ retrying' = TRUE
                 /\ bootstrap_Enter(trace)
                 /\ UNCHANGED <<client, installed_by, cipd_error>>
            ELSE /\ calls' = trace
                 /\ cipd_error' = << exit_status >>
                 /\ cipd_pc' = "raised"
                 /\ UNCHANGED <<client, installed_by, tmp, retrying, requests,
                                conn_host, request_path, sent, res, prev_res,
                                download>>
    /\ UNCHANGED digests
    /\ UNCHANGED presubmit_vars

NextCipd == CipdInit \/ Request \/ Selfupdate

\* wrapper.init is not run
CipdIdle ==
    /\ cipd_pc = "idle"
    /\ client = <<>>
    /\ tmp = <<>>
    /\ installed_by = "none"
    /\ digests = <<>>
    /\ calls = <<>>
    /\ retrying = FALSE
    /\ requests = 0
    /\ conn_host = <<>>
    /\ request_path = <<>>
    /\ sent = <<>>
    /\ res = <<>>
    /\ prev_res = <<>>
    /\ download = <<>>
    /\ cipd_error = <<>>

----------------------------------------------------------------------------
(* Inputs *)

\* Check functions: each takes one parameter
FnA == Function(<<"A">>, 1)
FnB == Function(<<"B">>, 1)
Functions == {FnA, FnB}

\* Paths of a repository, relative to its root
PathPool == { <<"a", ".", "h">>, <<"b", ".", "c">>, <<"c", ".", "H">>,
              <<"g", "/", "a", ".", "h">> }

Universes == SeqsUpTo(PathPool, MaxPaths)

\* The universes of the runs of whole programs: none of the paths, paths of
\* two kinds, a path that differs from a suffix in case only, and a path
\* that an exclude pattern matches
ProgramUniverses ==
    { <<>>,
      << <<"a", ".", "h">>, <<"b", ".", "c">> >>,
      << <<"c", ".", "H">> >>,
      << <<"g", "/", "a", ".", "h">>, <<"b", ".", "c">> >> }

\* Checks defined with @filter_paths when the module that defines them is
\* loaded, and a bare callable
Registry ==
    { CheckEntry(filter_paths(1, FnA, StrArg(<<".", "h">>),
                              FilterPathsDefaultExclude,
                              FilterPathsDefaultAlwaysRun)),
      CheckEntry(filter_paths(2, FnB, FilterPathsDefaultEndswith,
                              FilterPathsDefaultExclude,
                              FilterPathsDefaultAlwaysRun)),
      CheckEntry(filter_paths(3, FnA, TupleArg(<< <<".", "h">>, <<".", "c">> >>),
                              TupleArg(<< <<".", "*", "g", ".", "*">> >>),
                              FilterPathsDefaultAlwaysRun)),
      CheckEntry(filter_paths(4, FnB, StrArg(<<".", "p", "y">>),
                              FilterPathsDefaultExclude, TRUE)),
      CallableEntry(FnA) }

\* The check functions of the other specifications raise
\* PresubmitFailure()
DefaultFailures == {PresubmitFailure(<<>>, NoPath)}

TypeOK ==
    /\ main_pc \in {"main", "run", "returned", "exit"}
    /\ is_git_repo \in {"unknown", "yes", "no"}
    /\ listed \in BOOLEAN
    /\ returned \in BOOLEAN
    /\ exit_code \in {<<>>, <<0>>, <<1>>}
    /\ pc \in {"init", "loop", "call", "return", "done", "raised"}
    /\ behaviour \in Behaviours \cup {"none", "running"}
    /\ keep_going \in BOOLEAN
    /\ i \in 0..Len(program)
    /\ passed \in Nat /\ failed \in Nat

InitPresubmit ==
    /\ keep_going \in BOOLEAN
    /\ main_pc = "main"
    /\ is_git_repo = "unknown"
    /\ listed = FALSE
    /\ returned = FALSE
    /\ exit_code = <<>>
    /\ handlers = {}
    /\ summary = <<>>
    /\ files = <<>>
    /\ paths = <<>>
    /\ failure = <<>>
    /\ logged = <<>>
    /\ pc = "init"
    /\ program = <<>>
    /\ i = 0
    /\ passed = 0
    /\ failed = 0
    /\ skipped = 0
    /\ total = 0
    /\ success = FALSE
    /\ invoked = <<>>
    /\ results = <<>>
    /\ behaviour = "none"

InitCommon == InitPresubmit /\ CipdIdle

\* The command line is about to run a program in a directory
Init ==
    /\ full_program \in SeqsUpTo(Registry, MaxChecks)
    /\ git_stdout \in ProgramUniverses
    /\ cli_exclude = <<>>
    /\ max_lines = DefaultMaxLines
    /\ failures = DefaultFailures
    /\ InitCommon

Spec == Init /\ [][Next]_vars

\* Filters for the check of the filter model on its own
SuffixPool == { <<>>, <<".", "h">>, <<".", "c">>, <<"/", "a", ".", "h">> }

PatternPool == { <<".", "*", "g", ".", "*">>, <<"g">>, <<"a", ".", "h">>,
                 <<".", "*">> }

\* The command line about to run a program of one check defined with
\* @filter_paths, for every filter over the pools, keep_going left at its
\* default
InitFilter ==
    /\ \E endswith \in SeqsUpTo(SuffixPool, MaxSuffixes),
          patterns \in SeqsUpTo(PatternPool, MaxExcludes),
          always_run \in BOOLEAN :
            full_program = << CheckEntry(filter_paths(1, FnA,
                                TupleArg(endswith), TupleArg(patterns),
                                always_run)) >>
    /\ git_stdout \in Universes
    /\ cli_exclude = <<>>
    /\ max_lines = DefaultMaxLines
    /\ failures = DefaultFailures
    /\ InitCommon
    /\ ~keep_going

SpecFilter == InitFilter /\ [][Next]_vars

\* A function of two parameters, and what the module that defines checks
\* tried to define: decorating the function of two parameters raises
FnTwo == Function(<<"C">>, 2)

DefinedForArity ==
    { filter_paths(1, FnA, StrArg(<<".", "h">>), FilterPathsDefaultExclude,
                   FilterPathsDefaultAlwaysRun),
      filter_paths(5, FnTwo, FilterPathsDefaultEndswith,
                   FilterPathsDefaultExclude, FilterPathsDefaultAlwaysRun) }

\* The entries a program can be made of: the checks whose definition did
\* not raise, and the functions themselves
RegistryArity ==
    {CheckEntry(c) : c \in DefinedForArity \ {TypeError}}
        \cup {CallableEntry(FnA), CallableEntry(FnTwo)}

\* The command line about to run a program that can hold functions that do
\* not take exactly one parameter
InitArity ==
    /\ full_program \in SeqsUpTo(RegistryArity, MaxChecks)
    /\ git_stdout \in ProgramUniverses
    /\ cli_exclude = <<>>
    /\ max_lines = DefaultMaxLines
    /\ failures = DefaultFailures
    /\ InitCommon

SpecArity == InitArity /\ [][Next]_vars

\* Names of check functions
NameChars == {"a", "M", "2", "_", "!", " "}

ExampleName == <<"M", "y", " ", "C", "h", "e", "c", "k", "!", "!", "2">>

Names == SeqsUpTo(NameChars, MaxNameLen) \cup {ExampleName}

\* The command line about to run a program of one function, for every name
InitName ==
    /\ \E name \in Names : full_program = << CallableEntry(Function(name, 1)) >>
    /\ git_stdout = <<>>
    /\ cli_exclude = <<>>
    /\ max_lines = DefaultMaxLines
    /\ failures = DefaultFailures
    /\ InitCommon

SpecName == InitName /\ [][Next]_vars

\* The command line about to run a program of one function, for every
\* listing git can print and every exclude argument over the pools
InitList ==
    /\ git_stdout \in SeqsUpTo(PathPool, MaxListing)
    /\ cli_exclude \in SeqsUpTo(PatternPool, MaxExcludes)
    /\ full_program = << CallableEntry(FnA) >>
    /\ max_lines = DefaultMaxLines
    /\ failures = DefaultFailures
    /\ InitCommon

SpecList == InitList /\ [][Next]_vars

\* Paths at the top of the repository and in two directories
SummaryPool == { <<"a", ".", "h">>, <<"d", "/", "a", ".", "h">>,
                 <<"d", "/", "b", ".", "c">>, <<"e", "/", "a", ".", "h">> }

\* The command line about to run a program of one function, for every
\* listing over the pool and every line budget of file_summary
InitSummary ==
    /\ git_stdout \in SeqsUpTo(SummaryPool, MaxFiles)
    /\ cli_exclude = <<>>
    /\ full_program = << CallableEntry(FnA) >>
    /\ max_lines \in 1..MaxLines
    /\ failures = DefaultFailures
    /\ InitCommon

SpecSummary == InitSummary /\ [][Next]_vars

\* Descriptions and paths of PresubmitFailures
DescriptionPool == { <<>>, <<"b", "a", "d">> }
FailurePathPool == { NoPath, <<"a", ".", "h">> }

FailurePool ==
    {PresubmitFailure(description, path) :
        description \in DescriptionPool, path \in FailurePathPool}

\* The command line about to run a program of functions that can raise
\* every PresubmitFailure over the pools
InitFailure ==
    /\ git_stdout = << <<"a", ".", "h">> >>
    /\ cli_exclude = <<>>
    /\ full_program \in SeqsUpTo({CallableEntry(FnA), CallableEntry(FnB)},
                                 MaxFailing)
    /\ max_lines = DefaultMaxLines
    /\ failures = FailurePool
    /\ InitCommon

SpecFailure == InitFailure /\ [][Next]_vars

\* The files DIGESTS_FILE can be: lines of plat, hashtype and hashval
DigestsPool ==
    { <<>>,
      << [plat |-> expected_plat, hashtype |-> "sha256",
          hashval |-> sha256(<<"a">>)] >>,
      << [plat |-> <<"m", "a", "c", "-", "a", "m", "d", "6", "4">>,
          hashtype |-> "sha256", hashval |-> sha256(<<"a">>)],
         [plat |-> expected_plat, hashtype |-> "sha1",
          hashval |-> <<"sha1", "a">>],
         [plat |-> expected_plat, hashtype |-> "sha256",
          hashval |-> sha256(<<"b">>)] >> }

\* wrapper.init is about to run, with a client that is not a file or one
\* that something else installed
InitCipd ==
    /\ git_stdout = <<>>
    /\ cli_exclude = <<>>
    /\ full_program = <<>>
    /\ max_lines = DefaultMaxLines
    /\ failures = DefaultFailures
    /\ InitPresubmit
    /\ ~keep_going
    /\ cipd_pc = "init"
    /\ client \in {<<>>} \cup {<< c >> : c \in ContentPool}
    /\ installed_by = IF client = <<>> THEN "none" ELSE "other"
    /\ digests \in DigestsPool
    /\ tmp = <<>>
    /\ calls = <<>>
    /\ retrying = FALSE
    /\ requests = 0
    /\ conn_host = <<>>
    /\ request_path = <<>>
    /\ sent = <<>>
    /\ res = <<>>
    /\ prev_res = <<>>
    /\ download = <<>>
    /\ cipd_error = <<>>

SpecCipd == InitCipd /\ [][NextCipd]_vars

----------------------------------------------------------------------------
(* Properties *)

\* The run was stopped by a check that failed while keep_going is false,
\* or by a cancelled check
CancelSeen == "CANCEL" \in Range(results)
FailSeen == "FAIL" \in Range(results)

\* The calls made so far are those of the first entries of the executed
\* program, in order
InvokedInOrder ==
    /\ Len(invoked) <= Len(program)
    /\ \A j \in 1..Len(invoked) : invoked[j].id = program[j].check.id

\* C1: fail-fast.  With keep_going false and no cancellation, when the
\* first failing check is at position k of an executed program of length n,
\* exactly the checks 1..k are called, in order, and no check after k is
\* ever called; the run ends with passed = k-1, failed = 1, skipped = n-k
\* and success false.
FailFast ==
    (~keep_going /\ ~CancelSeen) =>
        \A k \in 1..Len(results) :
            (results[k] = "FAIL" /\ \A j \in 1..(k - 1) : results[j] # "FAIL") =>
                /\ Len(invoked) = k
                /\ InvokedInOrder
                /\ pc \in {"return", "done"}
                /\ pc = "done" =>
                    /\ passed = k - 1
                    /\ failed = 1
                    /\ skipped = Len(program) - k
                    /\ success = FALSE

FailFastWitness ==
    /\ pc = "done"
    /\ ~keep_going
    /\ Len(program) = 3
    /\ results = <<"PASS", "FAIL">>
    /\ Len(invoked) = 2
    /\ passed = 1 /\ failed = 1 /\ skipped = 1 /\ ~success

\* C2: keep-going.  With keep_going true and no cancellation, a run that
\* returns has called every check of the executed program, in order,
\* however many failed: passed + failed = len(program) and skipped = 0.
KeepGoing ==
    (pc = "done" /\ keep_going /\ ~CancelSeen) =>
        /\ Len(invoked) = Len(program)
        /\ InvokedInOrder
        /\ Len(results) = Len(program)
        /\ passed + failed = Len(program)
        /\ failed = Cardinality({k \in 1..Len(results) : results[k] = "FAIL"})
        /\ skipped = 0
        /\ success = (failed = 0)

KeepGoingWitness ==
    /\ pc = "done"
    /\ keep_going
    /\ Len(program) = 3
    /\ results = <<"PASS", "FAIL", "PASS">>
    /\ passed = 2 /\ failed = 1 /\ skipped = 0 /\ ~success

\* C3: cancel precedence.  Once the outcome of a check is CANCEL no check
\* is called any more, whatever keep_going is.
CancelPrecedence == [][CancelSeen => invoked' = invoked]_vars

CancelPrecedenceWitness ==
    /\ pc = "done"
    /\ keep_going
    /\ Len(program) = 3
    /\ results = <<"FAIL", "CANCEL">>
    /\ Len(invoked) = 2

\* C4: run returns success exactly when failed = 0 and skipped = 0, which
\* is exactly when every check of the executed program was called and
\* passed.
SuccessIffAllPassed ==
    pc = "done" =>
        /\ success <=> (failed = 0 /\ skipped = 0)
        /\ success <=> /\ Len(invoked) = Len(program)
                       /\ Len(results) = Len(program)
                       /\ \A k \in 1..Len(results) : results[k] = "PASS"

SuccessIffAllPassedWitness ==
    /\ pc = "done"
    /\ success
    /\ Len(program) = 2
    /\ results = <<"PASS", "PASS">>

\* C5 as stated: at the end of a run skipped is the number of checks of the
\* executed program that were never called.
SkippedIsNeverInvoked ==
    pc = "done" => skipped = Len(program) - Len(invoked)

\* C5 as amended: at the end of a run skipped is the number of checks of
\* the executed program that were never called, plus one when the run was
\* stopped by a cancelled check: the cancelled check was called and is
\* counted as skipped.
SkippedIsNotCompleted ==
    pc = "done" =>
        skipped = (Len(program) - Len(invoked)) + (IF CancelSeen THEN 1 ELSE 0)

SkippedIsNotCompletedWitness ==
    /\ pc = "done"
    /\ Len(program) = 3
    /\ results = <<"PASS", "CANCEL">>
    /\ Len(invoked) = 2
    /\ skipped = 2

\* The checks of the program handed to run, bare callables wrapped
Wrapped == WrapAll(full_program)

\* The subset resolved for a check: its paths in the executed program, and
\* nothing when it is not in the executed program
SubsetOf(check) ==
    IF \E j \in 1..Len(program) : program[j].check.id = check.id
    THEN program[CHOOSE j \in 1..Len(program) :
                    program[j].check.id = check.id].paths
    ELSE <<>>

\* No path of the universe is selected by the filter of the check
NoMatch(check) == \A k \in 1..Len(paths) : ~PathSelected(check.filter, paths[k])

\* C6: drop-on-no-match.  A check with always_run false and no matching
\* path is not in the executed program, is never called, and is in none of
\* the counts: the counts and the total cover the other checks only.
DropOnNoMatch ==
    LET dropped == {k \in 1..Len(Wrapped) :
                        ~Wrapped[k].always_run /\ NoMatch(Wrapped[k])}
    IN  /\ \A k \in dropped :
            /\ \A j \in 1..Len(invoked) : invoked[j].id # Wrapped[k].id
            /\ \A j \in 1..Len(program) : program[j].check.id # Wrapped[k].id
        /\ pc # "init" => Len(program) = Len(Wrapped) - Cardinality(dropped)
        /\ pc = "done" =>
            /\ passed + failed + skipped = Len(Wrapped) - Cardinality(dropped)
            /\ total = Len(Wrapped) - Cardinality(dropped)

DropOnNoMatchWitness ==
    /\ pc = "done"
    /\ Len(full_program) = 3
    /\ Len(program) = 2
    /\ Len(invoked) = 2
    /\ total = 2
    /\ paths # <<>>
    /\ \E k \in 1..3 : ~Wrapped[k].always_run /\ NoMatch(Wrapped[k])

\* The run was stopped before the end of the executed program
EarlyStop == CancelSeen \/ (FailSeen /\ ~keep_going)

\* C7: always-run.  A check with always_run true and no matching path is in
\* the executed program with an empty subset, is called with an empty path
\* list unless an early stop pre-empts it, and is counted in the tally.
AlwaysRun ==
    pc # "init" =>
        /\ \A j \in 1..Len(invoked) :
            invoked[j].paths = ContextPaths(repository_root, program[j].paths)
        /\ \A k \in 1..Len(Wrapped) :
            (Wrapped[k].always_run /\ NoMatch(Wrapped[k])) =>
                \E j \in 1..Len(program) :
                    /\ program[j].check.id = Wrapped[k].id
                    /\ program[j].paths = <<>>
                    /\ j <= Len(invoked) =>
                        /\ invoked[j].id = Wrapped[k].id
                        /\ invoked[j].paths = <<>>
                    /\ (pc = "done" /\ j > Len(invoked)) => EarlyStop
                    /\ pc = "done" =>
                        /\ total = Len(program)
                        /\ passed + failed + skipped = Len(program)

AlwaysRunWitness ==
    /\ pc = "done"
    /\ paths # <<>>
    /\ Len(program) = 2
    /\ Len(invoked) = 2
    /\ program[2].check.always_run
    /\ program[2].check.id = 4
    /\ NoMatch(program[2].check)
    /\ invoked[2].paths = <<>>
    /\ total = 2

\* end is a suffix of s: s is some string followed by end
IsSuffix(end, s) == \E n \in 0..Len(s) : s = SubSeq(s, 1, n) \o end

\* C8: filter membership.  For every filter and universe, a path of the
\* universe is in the subset resolved for a check if and only if it ends
\* with at least one of the suffixes of filter.endswith, compared
\* character by character, and no pattern of filter.exclude matches the
\* whole of it; the subset holds paths of the universe only.
FilterMembership ==
    pc # "init" =>
        \A k \in 1..Len(Wrapped) :
            LET filt == Wrapped[k].filter
                subset == SubsetOf(Wrapped[k])
            IN  /\ Range(subset) \subseteq Range(paths)
                /\ \A path \in Range(paths) :
                    path \in Range(subset) <=>
                        /\ \E end \in Range(filt.endswith) : IsSuffix(end, path)
                        /\ \A exp \in Range(filt.exclude) : ~fullmatch(exp, path)

\* endswith = ('.h',) keeps g/a.h and not c.H; the pattern g is found in
\* g/a.h but does not match the whole of it
FilterMembershipWitness ==
    /\ pc = "done"
    /\ paths = << <<"c", ".", "H">>, <<"g", "/", "a", ".", "h">> >>
    /\ Len(program) = 1
    /\ program[1].check.filter = _PathFilter(<< <<".", "h">> >>, << <<"g">> >>)
    /\ program[1].paths = << <<"g", "/", "a", ".", "h">> >>
    /\ Len(invoked) = 1

\* Was the entry built with the default filter: a bare callable, which
\* _apply_filters wraps with _PathFilter(), or a check made by filter_paths
\* without endswith and exclude
HasDefaultFilter(entry) ==
    \/ ~entry.is_check
    \/ /\ entry.is_check
       /\ entry.check = filter_paths(entry.check.id, entry.check.fn,
                                     FilterPathsDefaultEndswith,
                                     FilterPathsDefaultExclude,
                                     entry.check.always_run)

\* C9: the default filter resolves to the whole universe, whether it was
\* built by _PathFilter() or by filter_paths() without arguments.
DefaultFilterMatchesAll ==
    pc # "init" =>
        \A k \in 1..Len(full_program) :
            HasDefaultFilter(full_program[k]) => SubsetOf(Wrapped[k]) = paths

DefaultFilterMatchesAllWitness ==
    /\ pc = "done"
    /\ Len(paths) = 2
    /\ Len(full_program) = 2
    /\ full_program[1].is_check
    /\ HasDefaultFilter(full_program[1])
    /\ ~full_program[2].is_check
    /\ Len(program) = 2
    /\ program[1].paths = paths
    /\ program[2].paths = paths
    /\ Len(invoked) = 2

\* The resolution done for each check on its own: every check of the
\* program with the paths its own filter selects, when it is kept
IndependentResolution ==
    LET kept == SelectSeq(Wrapped, LAMBDA c :
                    KeepCheck(FilteredPaths(c.filter, paths), c))
    IN  [k \in 1..Len(kept) |->
            [check |-> kept[k],
             paths |-> FilteredPaths(kept[k].filter, paths)]]

\* C11: grouping equivalence.  The list of (check, subset) that the
\* grouped resolver produces is the list obtained by filtering for each
\* check on its own, and two checks whose filters have equal fields have the
\* same subset.
GroupingEquivalence ==
    pc # "init" =>
        /\ program = IndependentResolution
        /\ \A j, k \in 1..Len(program) :
            program[j].check.filter = program[k].check.filter =>
                program[j].paths = program[k].paths

\* A check made by filter_paths() and a bare callable: their filters were
\* built apart and have equal fields
GroupingEquivalenceWitness ==
    /\ pc = "done"
    /\ Len(paths) = 2
    /\ Len(program) = 2
    /\ full_program[1].is_check
    /\ ~full_program[2].is_check
    /\ program[1].check.id # program[2].check.id
    /\ program[1].check.filter = program[2].check.filter
    /\ program[1].paths = paths
    /\ program[2].paths = paths
    /\ Len(results) = 2

\* C12: ordering.  The executed program is a subsequence of the program
\* handed to run, in its order; the checks are called one at a time in the
\* order of the executed program, a call starting only when every earlier
\* call has ended.
Ordering ==
    /\ [](pc # "init" =>
            /\ \E f \in [1..Len(program) -> 1..Len(Wrapped)] :
                /\ \A j \in 1..Len(program) : program[j].check = Wrapped[f[j]]
                /\ \A j, k \in 1..Len(program) : j < k => f[j] < f[k]
            /\ \A j \in 1..Len(invoked) :
                /\ invoked[j].count = j
                /\ j <= Len(program)
                /\ invoked[j].id = program[j].check.id
                /\ j < Len(invoked) => j <= Len(results))
    /\ [][Len(invoked') > Len(invoked) =>
            /\ Len(invoked') = Len(invoked) + 1
            /\ Len(results) = Len(invoked)]_vars

\* Three checks kept, the first and the third in one group
OrderingWitness ==
    /\ pc = "done"
    /\ Len(program) = 3
    /\ Len(invoked) = 3
    /\ Len(results) = 3
    /\ program[1].check.id # program[3].check.id
    /\ program[1].check.filter = program[3].check.filter
    /\ program[1].check.filter # program[2].check.filter

\* C13 as stated: the path list of the context handed to a check is the
\* subset resolved for the check, the same paths.
ContextPathsAreSubset ==
    \A j \in 1..Len(invoked) :
        invoked[j].paths = program[invoked[j].count].paths

\* C13 as amended: the path list of the context handed to a check is the
\* subset resolved for the check (the paths of the universe its filter
\* selects, in the order of the universe) with every path joined to the
\* repository root: one entry for each path of the subset, in the same
\* order, nothing added or removed.
ContextPathsAreJoinedSubset ==
    \A j \in 1..Len(invoked) :
        LET subset == program[invoked[j].count].paths
        IN  /\ subset = FilteredPaths(program[invoked[j].count].check.filter,
                                      paths)
            /\ Len(invoked[j].paths) = Len(subset)
            /\ \A k \in 1..Len(subset) :
                invoked[j].paths[k] = repository_root \o <<"/">> \o subset[k]

ContextPathsAreJoinedSubsetWitness ==
    /\ pc = "done"
    /\ paths = << <<"a", ".", "h">>, <<"b", ".", "c">> >>
    /\ Len(program) = 2
    /\ Len(invoked) = 2
    /\ program[1].paths = << <<"a", ".", "h">> >>
    /\ invoked[1].paths = << <<"/", "r", "/", "a", ".", "h">> >>
    /\ program[2].paths = paths
    /\ invoked[2].paths = << <<"/", "r", "/", "a", ".", "h">>,
                             <<"/", "r", "/", "b", ".", "c">> >>

\* C14: every definition of a check whose function does not take exactly
\* one parameter is rejected when it is defined, so no run calls a function
\* with the wrong number of parameters and no run fails on a signature
\* mismatch, for checks made by filter_paths and for bare callables.
SignatureCheckedAtDefinition ==
    \A j \in 1..Len(invoked) :
        /\ invoked[j].fn.nparams = 1
        /\ (j <= Len(results) /\ results[j] = "FAIL") =>
            program[invoked[j].count].check.fn.nparams = 1

\* Was the check made by filter_paths without an always_run argument
ImplicitAlwaysRun(entry) ==
    /\ entry.is_check
    /\ entry.check = filter_paths(entry.check.id, entry.check.fn,
                                  TupleArg(entry.check.filter.endswith),
                                  TupleArg(entry.check.filter.exclude),
                                  FilterPathsDefaultAlwaysRun)

\* The check is not in the executed program
Dropped(check) == \A j \in 1..Len(program) : program[j].check.id # check.id

NothingPropagates ==
    /\ pc # "raised"
    /\ pc # "call" => Len(results) = Len(invoked)

\* C17 as amended: nothing that a check function raises gets past run when
\* it is PresubmitFailure, another Exception, or KeyboardInterrupt: run
\* records an outcome for the check and goes on to its summary.  A
\* BaseException of another kind, such as SystemExit, gets past run, which
\* then records no outcome for the check and prints no summary.
OnlyBaseExceptionPropagates ==
    /\ behaviour \in {"PresubmitFailure", "Exception", "KeyboardInterrupt"} =>
        /\ pc \in {"loop", "return", "done"}
        /\ Len(results) = Len(invoked)
        /\ results[Len(results)] \in {"FAIL", "CANCEL"}
        /\ pc = "done" => total = Len(program)
    /\ pc = "raised" =>
        /\ behaviour = "SystemExit"
        /\ Len(results) = Len(invoked) - 1
        /\ total = 0

OnlyBaseExceptionPropagatesWitness ==
    /\ pc = "done"
    /\ behaviour = "Exception"
    /\ keep_going
    /\ results = <<"FAIL", "FAIL">>
    /\ Len(program) = 2
    /\ failed = 2
    /\ total = 2

\* C18: no retries.  Within a run each entry of the executed program is
\* called at most once: no two calls are for the same entry, whatever the
\* results and keep_going are.
NoRetries ==
    /\ \A j, k \in 1..Len(invoked) :
        j # k => invoked[j].count # invoked[k].count
    /\ \A j \in 1..Len(invoked) :
        /\ invoked[j].count \in 1..Len(program)
        /\ invoked[j].id = program[invoked[j].count].check.id
    /\ Len(invoked) <= Len(program)

NoRetriesWitness ==
    /\ pc = "done"
    /\ keep_going
    /\ Len(program) = 3
    /\ results = <<"FAIL", "PASS", "CANCEL">>
    /\ Len(invoked) = 3

\* The positions of the program handed to run whose check is kept
KeptPositions ==
    {k \in 1..Len(Wrapped) :
        KeepCheck(FilteredPaths(Wrapped[k].filter, paths), Wrapped[k])}

\* C19: duplicate names.  Entries with one name, distinct checks or one
\* check object twice, are each in the executed program, each called and
\* each counted: the executed program has one entry for each kept position,
\* and a run that is not stopped early makes one call for each.
DuplicateNamesRunIndependently ==
    pc # "init" =>
        /\ Len(program) = Cardinality(KeptPositions)
        /\ \A f \in {Wrapped[k].fn : k \in 1..Len(Wrapped)} :
            /\ Cardinality({j \in 1..Len(program) : program[j].check.fn.name = f.name})
                = Cardinality({k \in KeptPositions : Wrapped[k].fn.name = f.name})
            /\ (pc = "done" /\ ~EarlyStop) =>
                Cardinality({j \in 1..Len(invoked) : invoked[j].fn.name = f.name})
                    = Cardinality({k \in KeptPositions : Wrapped[k].fn.name = f.name})
        /\ (pc = "done" /\ ~EarlyStop) =>
            /\ passed + failed = Cardinality(KeptPositions)
            /\ total = Cardinality(KeptPositions)

\* One check object twice, then another check with the same name
DuplicateNamesRunIndependentlyWitness ==
    /\ pc = "done"
    /\ keep_going
    /\ Len(program) = 3
    /\ program[1].check.id = program[2].check.id
    /\ program[3].check.id # program[1].check.id
    /\ program[3].check.fn.name = program[1].check.fn.name
    /\ Len(invoked) = 3
    /\ passed + failed = 3
    /\ total = 3

\* The name with every longest run of characters for which InRun holds
\* replaced by one underscore, the other characters in lower case: one
\* character for each position that is outside a run or starts a run
Collapse(name, InRun(_)) ==
    LET starts == {q \in 1..Len(name) :
                      \/ ~InRun(name[q])
                      \/ q = 1
                      \/ ~InRun(name[q - 1])}
        pos(k) == CHOOSE q \in starts :
                      Cardinality({r \in starts : r < q}) = k - 1
    IN  [k \in 1..Cardinality(starts) |->
            IF InRun(name[pos(k)]) THEN "_" ELSE LowerChar(name[pos(k)])]

OutputDirectoriesUnique ==
    \A j, k \in 1..Len(invoked) :
        j # k => invoked[j].output_directory # invoked[k].output_directory

\* C22: when the directory is not in a Git repository, run_presubmit
\* returns without listing paths, without constructing or running the
\* Presubmit: no check is called and no summary is made.
NotARepositoryRunsNothing ==
    is_git_repo = "no" =>
        /\ main_pc \in {"returned", "exit"}
        /\ ~listed
        /\ files = <<>>
        /\ paths = <<>>
        /\ pc = "init"
        /\ program = <<>>
        /\ invoked = <<>>
        /\ results = <<>>
        /\ handlers = {}
        /\ summary = <<>>
        /\ passed = 0 /\ failed = 0 /\ skipped = 0 /\ total = 0

NotARepositoryRunsNothingWitness ==
    /\ main_pc = "exit"
    /\ is_git_repo = "no"
    /\ Len(git_stdout) = 2
    /\ Len(full_program) = 3
    /\ invoked = <<>>
    /\ ~listed

\* The values run_presubmit returns for a run that was executed and had
\* failed or skipped checks
FailedRunValues ==
    {Success(nfailed, nskipped) :
        <<nfailed, nskipped>> \in
            {c \in (0..MaxChecks) \X (0..MaxChecks) : c[1] + c[2] > 0}}

\* C23: what the caller of run_presubmit observes when the directory is not
\* in a Git repository differs from what it observes for a run that was
\* executed and had failed or skipped checks.
NotARepositoryIsDistinct ==
    (is_git_repo = "no" /\ main_pc \in {"returned", "exit"}) =>
        returned \notin FailedRunValues

\* The run was executed to its end and every check passed
RunSucceeded == is_git_repo = "yes" /\ pc = "done" /\ success

\* C24 as stated: the process exits with code 0 exactly when the success of
\* the run is true, and with another code for every other outcome.
ExitCodeZeroIffSuccess ==
    main_pc = "exit" => (exit_code = <<0>> <=> RunSucceeded)

\* C24 as amended: when run_presubmit returns, the process exits with code
\* 0 exactly when the success of the run is true, and with code 1 for a
\* failed check, an early stop that leaves checks not run, a cancellation,
\* and a directory that is not in a repository.  When a check function
\* raises SystemExit, run_presubmit does not return and the process exits
\* with the code of that exception, which can be 0.
ExitCodeOfReturnedRun ==
    main_pc = "exit" =>
        /\ pc # "raised" =>
            /\ exit_code = <<0>> <=> RunSucceeded
            /\ ~RunSucceeded => exit_code = <<1>>
            /\ (FailSeen \/ CancelSeen \/ skipped > 0 \/ is_git_repo = "no")
                => exit_code = <<1>>
        /\ pc = "raised" =>
            /\ behaviour = "SystemExit"
            /\ \E code \in SystemExitCodes : exit_code = <<code>>

ExitCodeOfReturnedRunWitness ==
    /\ main_pc = "exit"
    /\ pc = "done"
    /\ Len(program) = 3
    /\ results = <<"PASS", "PASS", "CANCEL">>
    /\ failed = 0
    /\ exit_code = <<1>>

\* C25: path source.  For every listing git prints, list_git_files returns
\* the paths in strictly increasing order, so with no path twice; no
\* exclude pattern is found in a path of the result; the result holds the
\* listed paths that are not excluded and nothing else.
ListingSortedAndFiltered ==
    listed =>
        /\ \A j \in 1..(Len(files) - 1) : PathLess(files[j], files[j + 1])
        /\ \A j, k \in 1..Len(files) : j # k => files[j] # files[k]
        /\ \A j \in 1..Len(files) :
            \A k \in 1..Len(cli_exclude) : ~search(cli_exclude[k], files[j])
        /\ Range(files) =
            {path \in Range(_git_ls_files(git_stdout, repository_root)) :
                \A k \in 1..Len(cli_exclude) : ~search(cli_exclude[k], path)}
        /\ \A j \in 1..Len(paths) :
            files[j] = repository_root \o <<"/">> \o paths[j]

\* g/a.h is listed before b.c and excluded, b.c is listed twice and before
\* a.h
ListingSortedAndFilteredWitness ==
    /\ main_pc = "exit"
    /\ pc = "done"
    /\ git_stdout = << <<"g", "/", "a", ".", "h">>, <<"b", ".", "c">>,
                       <<"a", ".", "h">> >>
    /\ cli_exclude = << <<"g">> >>
    /\ files = << <<"/", "r", "/", "a", ".", "h">>,
                  <<"/", "r", "/", "b", ".", "c">> >>
    /\ paths = << <<"a", ".", "h">>, <<"b", ".", "c">> >>

\* The directories file_summary groups the paths by, and the number of
\* paths of each
SummaryGroups == {Parent(path, DefaultLevels) : path \in Range(paths)}
GroupSize(dir) ==
    Cardinality({k \in 1..Len(paths) : Parent(paths[k], DefaultLevels) = dir})

RECURSIVE SumOfTotals(_)
SumOfTotals(lines) ==
    IF lines = <<>> THEN 0 ELSE lines[1].total + SumOfTotals(Tail(lines))

\* C26: the line budget of file_summary.  It returns at most max_lines
\* lines; when there are more directory groups than max_lines, the
\* max_lines - 1 groups with the most files are kept, each on its line, and
\* the other groups are merged into one last line; the totals of the lines
\* add up to the number of paths.
FileSummaryBudget ==
    pc # "init" =>
        /\ Len(summary) <= max_lines
        /\ SumOfTotals(summary) = Len(paths)
        /\ IF Cardinality(SummaryGroups) > max_lines
           THEN LET kept == {summary[k].path : k \in 1..(max_lines - 1)}
                IN  /\ Len(summary) = max_lines
                    /\ \A k \in 1..(max_lines - 1) :
                        /\ summary[k].others = 0
                        /\ summary[k].path \in SummaryGroups
                        /\ summary[k].total = GroupSize(summary[k].path)
                    /\ Cardinality(kept) = max_lines - 1
                    /\ \A dir \in kept : \A other \in SummaryGroups \ kept :
                        GroupSize(dir) >= GroupSize(other)
                    /\ summary[max_lines].others =
                        Cardinality(SummaryGroups \ kept)
                    /\ summary[max_lines].total =
                        Len(paths) - SumOfTotals(SubSeq(summary, 1, max_lines - 1))
           ELSE /\ Len(summary) = Cardinality(SummaryGroups)
                /\ \A k \in 1..Len(summary) :
                    /\ summary[k].others = 0
                    /\ summary[k].path \in SummaryGroups
                    /\ summary[k].total = GroupSize(summary[k].path)
                /\ {summary[k].path : k \in 1..Len(summary)} = SummaryGroups

\* Three groups for two lines: d has two files and is kept, the top of the
\* repository and e have one file each and are merged
FileSummaryBudgetWitness ==
    /\ pc = "done"
    /\ max_lines = 2
    /\ paths = << <<"a", ".", "h">>, <<"d", "/", "a", ".", "h">>,
                  <<"d", "/", "b", ".", "c">>, <<"e", "/", "a", ".", "h">> >>
    /\ summary = << [path |-> << <<"d">> >>, others |-> 0, total |-> 2],
                    [path |-> <<>>, others |-> 2, total |-> 2] >>

\* The number of results so far that are the given one
CountOf(result) == Cardinality({k \in 1..Len(results) : results[k] = result})

\* C27: the tally.  At every point of _execute_checks passed + failed is at
\* most the number of checks called so far and at most the length of the
\* executed program; at the end passed, failed and skipped are not
\* negative, they add up to the length of the executed program, and so
\* does the total of the summary.
TallyInvariant ==
    /\ passed = CountOf("PASS")
    /\ failed = CountOf("FAIL")
    /\ passed + failed <= Len(invoked)
    /\ pc # "init" => passed + failed <= Len(program)
    /\ pc = "done" =>
        /\ passed >= 0 /\ failed >= 0 /\ skipped >= 0
        /\ passed + failed + skipped = Len(program)
        /\ total = Len(program)

TallyInvariantWitness ==
    /\ pc = "done"
    /\ ~keep_going
    /\ Len(program) = 3
    /\ results = <<"FAIL">>
    /\ passed = 0 /\ failed = 1 /\ skipped = 2
    /\ total = 3

\* C28: a run in which a check is cancelled never reports success.  The
\* cancelled check is counted neither as passed nor as failed, so skipped
\* is at least 1 and the run fails, also when the cancelled check is the
\* last of the program and every other check passed.
CancelledRunFails ==
    CancelSeen =>
        /\ results[Len(results)] = "CANCEL"
        /\ passed + failed = Len(results) - 1
        /\ pc = "done" =>
            /\ skipped >= 1
            /\ ~success
            /\ ~returned
        /\ main_pc = "exit" => exit_code = <<1>>

CancelledRunFailsWitness ==
    /\ pc = "done"
    /\ main_pc = "returned"
    /\ Len(program) = 3
    /\ results = <<"PASS", "PASS", "CANCEL">>
    /\ passed = 2 /\ failed = 0 /\ skipped = 1
    /\ ~success

\* Every check of the program handed to run has always_run false and no
\* matching path; so it is when no check is registered
AllDropped ==
    \A k \in 1..Len(Wrapped) : ~Wrapped[k].always_run /\ NoMatch(Wrapped[k])

\* C29: a run whose executed program is empty, because no check is
\* registered or because every check is dropped for having no matching
\* path, calls nothing, reports passed = failed = skipped = 0 and returns
\* success.
EmptyProgramSucceeds ==
    /\ (pc # "init" /\ AllDropped) => program = <<>>
    /\ (pc # "init" /\ program = <<>>) =>
        /\ pc \in {"return", "done"}
        /\ invoked = <<>>
        /\ results = <<>>
        /\ passed = 0 /\ failed = 0
        /\ pc = "done" =>
            /\ skipped = 0
            /\ total = 0
            /\ success
            /\ returned
        /\ main_pc = "exit" => exit_code = <<0>>

\* Two checks on a universe that has no path for either
EmptyProgramSucceedsWitness ==
    /\ main_pc = "exit"
    /\ pc = "done"
    /\ Len(full_program) = 2
    /\ paths = << <<"c", ".", "H">> >>
    /\ AllDropped
    /\ program = <<>>
    /\ invoked = <<>>
    /\ success
    /\ exit_code = <<0>>

\* C30: the handler of the step.log of a check is attached to the logger
\* only between the start and the end of the context of that check.  At
\* most one such handler is attached at a time; while a check function
\* runs it is the handler of that check; when the check has ended, passed,
\* failed, cancelled or with an exception that leaves the context, no
\* handler is attached, and none is after the run.
HandlerDiscipline ==
    /\ Cardinality(handlers) <= 1
    /\ pc = "call" =>
        /\ handlers = {Handler(i, program[i].check.fn.name)}
        /\ \A h \in handlers :
            /\ h.count = invoked[Len(invoked)].count
            /\ h.file = invoked[Len(invoked)].output_directory
                            \o <<"/", "s", "t", "e", "p", ".", "l", "o", "g">>
    /\ pc # "call" => handlers = {}

\* The second check raised SystemExit, which left the context
HandlerDisciplineWitness ==
    /\ pc = "raised"
    /\ behaviour = "SystemExit"
    /\ Len(invoked) = 2
    /\ results = <<"FAIL">>
    /\ handlers = {}

\* C31 as stated: when a check raises PresubmitFailure, a message is logged
\* if and only if the description of the failure is not empty; the outcome
\* is FAIL in both cases, a failure with a path and an empty description
\* included.
FailureLoggedIffDescription ==
    behaviour = "PresubmitFailure" =>
        /\ results[Len(results)] = "FAIL"
        /\ logged # <<>> <=> failure[1].description # <<>>

\* C31 as amended: when a check raises PresubmitFailure, its message is
\* logged if and only if the message is not empty, and the message is the
\* description, after the path and ": " when the failure has a path.  So a
\* failure is logged when its description is not empty or it has a path: a
\* failure with a path and an empty description is logged as the path and
\* ": ".  The outcome is FAIL in every case.
FailureLoggedIffMessage ==
    behaviour = "PresubmitFailure" =>
        /\ Len(failure) = 1
        /\ results[Len(results)] = "FAIL"
        /\ logged # <<>> <=>
            (failure[1].description # <<>> \/ failure[1].path # NoPath)
        /\ logged # <<>> =>
            /\ Len(logged) = 1
            /\ logged[1].level = "WARNING"
            /\ logged[1].message =
                IF failure[1].path = NoPath THEN failure[1].description
                ELSE failure[1].path \o <<":", " ">> \o failure[1].description

\* A failure with a path and an empty description
FailureLoggedIffMessageWitness ==
    /\ pc = "done"
    /\ behaviour = "PresubmitFailure"
    /\ failure = << PresubmitFailure(<<>>, <<"a", ".", "h">>) >>
    /\ logged = << [level |-> "WARNING",
                    message |-> <<"a", ".", "h", ":", " ">>] >>
    /\ results = <<"PASS", "FAIL">>

\* The positions in calls of the calls of one function
Positions(op) == {k \in 1..Len(calls) : calls[k].op = op}

\* The bytes client_bytes returned do not have the digest DIGESTS_FILE
\* expects for the platform
Mismatch(got) ==
    got # <<>> /\ expected_hash(digests) # << <<"sha256">> \o got[1] >>

\* C32: bootstrap replaces the file at the client path only with the
\* downloaded bytes, and only when their SHA-256 digest is the one expected
\* for the platform; when the digests differ it raises, the client path is
\* left as it was and only the .tmp file was written.  A client that
\* bootstrap installed has the expected digest, after any number of calls
\* of bootstrap.
BootstrapIntegrity ==
    /\ [](installed_by = "bootstrap" =>
            /\ client # <<>>
            /\ expected_hash(digests) = << <<"sha256">> \o client[1] >>)
    /\ [][cipd_pc = "request" =>
            /\ client' # client =>
                /\ client' = download'
                /\ ~Mismatch(download')
                /\ installed_by' = "bootstrap"
            /\ Mismatch(download') =>
                /\ client' = client
                /\ installed_by' = installed_by
                /\ tmp' = download'
                /\ cipd_pc' = "raised"
                /\ cipd_error' \in {<<DigestIncorrect>>,
                                    <<PlatformNotInDigests>>}]_vars

\* The second bootstrap of init downloaded bytes with another digest than
\* the expected one: the client that was there is still there
BootstrapIntegrityWitness ==
    /\ cipd_pc = "raised"
    /\ cipd_error = <<DigestIncorrect>>
    /\ Cardinality(Positions("bootstrap")) = 1
    /\ retrying
    /\ installed_by = "other"
    /\ client = << <<"a">> >>
    /\ download = << <<"b">> >>
    /\ tmp = << <<"b">> >>

\* C33 as stated: when the first selfupdate of init fails, init bootstraps
\* once more and retries selfupdate.
FailedSelfupdateIsRetried ==
    \A k \in Positions("selfupdate") :
        (/\ \A j \in Positions("selfupdate") : j >= k
         /\ calls[k].result # "ok")
        => Len(calls) > k /\ calls[k + 1].op = "bootstrap"

\* C33 as amended: init bootstraps first only when the client file is
\* missing, then runs selfupdate; if that selfupdate exits with a status
\* that is not zero (CalledProcessError) init bootstraps once more and
\* retries selfupdate exactly once; a first selfupdate that fails in another
\* way (the client cannot be executed), a failure of the second selfupdate
\* and any failure of bootstrap leave init as the exception, with no further
\* call.  bootstrap runs at most twice, selfupdate at most twice, and init
\* returns only after a selfupdate that succeeded.
InitRecovery ==
    /\ Cardinality(Positions("bootstrap")) <= 2
    /\ Cardinality(Positions("selfupdate")) <= 2
    /\ Len(calls) >= 1 => calls[1].op = "isfile"
    /\ Len(calls) >= 2 =>
        (calls[2].op = "bootstrap" <=> calls[1].result = "False")
    /\ \A k \in Positions("selfupdate") :
        LET isFirst == \A j \in Positions("selfupdate") : j >= k
        IN  /\ (isFirst /\ calls[k].result = "CalledProcessError") =>
                /\ Len(calls) > k
                /\ calls[k + 1].op = "bootstrap"
                /\ Len(calls) > k + 1 =>
                    /\ calls[k + 2].op = "selfupdate"
                    /\ Len(calls) = k + 2
            /\ (calls[k].result = "OSError"
                    \/ (~isFirst /\ calls[k].result # "ok")) =>
                /\ Len(calls) = k
                /\ cipd_pc = "raised"
                /\ cipd_error = << calls[k].result >>
            /\ calls[k].result = "ok" =>
                /\ Len(calls) = k
                /\ cipd_pc = "returned"
    /\ \A k \in Positions("bootstrap") :
        /\ k > 2 => calls[k - 1] = Call("selfupdate", "CalledProcessError")
        /\ calls[k].result \notin {"running", "ok"} =>
            /\ Len(calls) = k
            /\ cipd_pc = "raised"
            /\ cipd_error = << calls[k].result >>
        /\ calls[k].result = "ok" =>
            IF Len(calls) = k THEN cipd_pc = "selfupdate"
            ELSE calls[k + 1].op = "selfupdate"
    /\ cipd_pc = "returned" =>
        /\ Len(calls) >= 2
        /\ calls[Len(calls)] = Call("selfupdate", "ok")

\* The client was missing, the first selfupdate exited with an error and
\* the second succeeded
InitRecoveryWitness ==
    /\ cipd_pc = "returned"
    /\ calls = << Call("isfile", "False"), Call("bootstrap", "ok"),
                  Call("selfupdate", "CalledProcessError"),
                  Call("bootstrap", "ok"), Call("selfupdate", "ok") >>

\* The request that follows a FOUND response with this location
RedirectTarget(location) ==
    LET url == urlparse(location)
    IN  [host |-> url.netloc, path |-> url.path \o <<"?">> \o url.query]

\* client_bytes raised 'failed to download client' and init with it
DownloadFailed ==
    /\ cipd_pc = "raised"
    /\ cipd_error = <<FailedToDownload>>
    /\ download = <<>>
    /\ calls[Len(calls)] = Call("bootstrap", FailedToDownload)

\* C34: client_bytes makes at most 10 requests; it returns content only from
\* a response with status OK, which can be the first; the request after a
\* FOUND response goes to the location of that response; a response with
\* another status ends the attempt at once; after such a response or 10
\* redirects in a row it raises 'failed to download client'.
ClientDownload ==
    /\ requests <= 10
    /\ download # <<>> =>
        /\ res # <<>>
        /\ res[1].status = 200
        /\ download = << res[1].content >>
    /\ requests >= 1 =>
        /\ Len(sent) = 1 /\ Len(res) = 1
        /\ requests = 1 => sent[1] = [host |-> CIPD_HOST, path |-> ClientPath]
        /\ requests >= 2 =>
            /\ Len(prev_res) = 1
            /\ prev_res[1].status = 302
            /\ sent[1] = RedirectTarget(prev_res[1].location)
        /\ res[1].status \notin {200, 302} => DownloadFailed
        /\ (res[1].status = 302 /\ requests = 10) => DownloadFailed
        /\ (res[1].status = 302 /\ requests < 10) => cipd_pc = "request"
    /\ cipd_error = <<FailedToDownload>> =>
        /\ requests >= 1
        /\ res[1].status # 200
        /\ res[1].status = 302 => requests = 10

\* Ten redirects in a row, the last request to the location of the ninth
ClientDownloadWitness ==
    /\ requests = 10
    /\ DownloadFailed
    /\ res[1].status = 302
    /\ prev_res[1].location =
        <<"h", "t", "t", "p", "s", ":", "/", "/">> \o StorageHost
            \o <<"/", "b", "/", "c", "?", "k", "=", "2">>
    /\ sent[1] = [host |-> StorageHost,
                  path |-> <<"/", "b", "/", "c", "?", "k", "=", "2">>]

====
